---- MODULE Spec2Model ----
(***************************************************************************)
(* A model of the museum recommendation backend (src/app.py): the Cypher   *)
(* recommendation query evaluated over a labelled property graph, the      *)
(* semantic retrieval-and-enrichment pipeline of Recommender, and the two  *)
(* Flask handlers that expose them.                                        *)
(***************************************************************************)
EXTENDS Integers, Sequences, FiniteSets, TLC

\* ------------------------------------------------------------------ bounds

\* Number of Specimen nodes in a graph snapshot (one queried, the rest candidates).
NumSpecimens == 7

\* Largest number of documents the vector store returns for one query.
MaxRetrieved == 6

\* ------------------------------------------------------- program constants

\* LIMIT 5 of the Cypher query.
Limit == 5

\* results['documents'][0][:5]
ContentsTop == 5

\* results['metadatas'][0][:5]
MetadatasTop == 5

\* type(r) IN [...] of the forward match (a)-[r]->(m).
ForwardTypes ==
    {"AT_GROWTH_STAGE", "BONE_IS", "DURING", "FROM_ERA", "KERATIN_ON",
     "LIVES_IN_HABITAT", "MADE_OF", "MUSEUM_ACQUISITION", "ORIGINATED",
     "PRESERVED", "TEETH_ARE", "TYPE_OF", "TYPE_OF_HIGH", "TYPE_OF_MID"}

\* The relationship types of the backward match (m)<-[:...]-(rec:Specimen).
BackwardTypes ==
    {"AT_GROWTH_STAGE", "BONE_IS", "DURING", "FROM_ERA", "KERATIN_ON",
     "LIVES_IN_HABITAT", "MADE_OF", "MUSEUM_ACQUISITION", "ORIGINATED",
     "PRESERVED", "TEETH_ARE", "TYPE_OF", "TYPE_OF_HIGH", "TYPE_OF_MID"}

\* ------------------------------------------------------- the graph store

\* A node is <<label, key>>; an edge is <<source, type, target>>.
Sp(i) == <<"Specimen", i>>
Attr(j) == <<"Attribute", j>>

SpecimenNodes == {Sp(i) : i \in 1..NumSpecimens}
AttributeNodes == {Attr(1), Attr(2)}
AllNodes == SpecimenNodes \cup AttributeNodes

\* The Specimen property of the Specimen nodes: the specimen's name. Each
\* Specimen node carries a name of its own (the catalogue's names are unique),
\* so the name identifies the node.
SpecimenNames == <<"n1", "n2", "n3", "n4", "n5", "n6", "n7", "n8", "n9", "n10">>
SpecimenProp(n) == SpecimenNames[n[2]]

\* A name that no Specimen node carries.
AbsentName == "nowhere"

\* The edges of the queried specimen Sp(1): two allow-listed types to the same
\* attribute and one to a second attribute; the same with a self-loop and an
\* edge back from an attribute; or nothing but a relationship outside the list.
QueriedProfiles ==
    { {<<Sp(1), "FROM_ERA", Attr(1)>>, <<Sp(1), "DURING", Attr(1)>>,
       <<Sp(1), "TYPE_OF", Attr(2)>>},
      {<<Sp(1), "FROM_ERA", Attr(1)>>, <<Sp(1), "DURING", Attr(1)>>,
       <<Sp(1), "TYPE_OF", Attr(2)>>, <<Sp(1), "TYPE_OF", Sp(1)>>,
       <<Attr(1), "TYPE_OF", Sp(1)>>},
      {<<Sp(1), "SCANNED_BY", Attr(1)>>} }

\* The edges of a candidate specimen: kind 0 reaches Attr(1) only over a type
\* outside the list and points at Sp(1); kind 1 reaches Attr(1) over three
\* listed types and Attr(2) over a type outside the list; kind 2 reaches
\* Attr(1) and Attr(2), each over one listed type.
CandidateProfile(i, kind) ==
    CASE kind = 0 -> {<<Sp(i), "SCANNED_BY", Attr(1)>>, <<Sp(i), "TYPE_OF", Sp(1)>>}
      [] kind = 1 -> {<<Sp(i), "FROM_ERA", Attr(1)>>, <<Sp(i), "DURING", Attr(1)>>,
                      <<Sp(i), "ORIGINATED", Attr(1)>>, <<Sp(i), "SCANNED_BY", Attr(2)>>}
      [] kind = 2 -> {<<Sp(i), "FROM_ERA", Attr(1)>>, <<Sp(i), "TYPE_OF", Attr(2)>>}

\* The candidates are interchangeable, so the snapshots hold one assignment of
\* kinds per multiset of kinds: the kinds do not decrease with the node's key.
KindAssignments ==
    {f \in [2..NumSpecimens -> 0..2] :
        \A i \in 2..NumSpecimens, j \in 2..NumSpecimens : i <= j => f[i] <= f[j]}

Graphs ==
    { q \cup UNION {CandidateProfile(i, f[i]) : i \in 2..NumSpecimens} :
        q \in QueriedProfiles, f \in KindAssignments }

\* ------------------------------------------------------- CYPHER_QUERY

\* The match without its WHERE clause: every Specimen node.
MatchAMutant(g, specimen_name) ==
    {a \in AllNodes : a[1] = "Specimen"}

\* MATCH (a:Specimen) WHERE a.Specimen = $specimen_name
MatchA(g, specimen_name) ==
    {a \in AllNodes : a[1] = "Specimen" /\ SpecimenProp(a) = specimen_name}

\* MATCH (a)-[r]->(m) WHERE type(r) IN [...]: one row per relationship.
ForwardRows(g, a) ==
    {e \in g : e[1] = a /\ e[2] \in ForwardTypes}

\* WITH a, collect(DISTINCT m) AS metadata
Metadata(g, a) == {e[3] : e \in ForwardRows(g, a)}

\* The backward match without `WHERE rec <> a`.
NotSelfMutant(rec, a) == TRUE

\* WHERE rec <> a
NotSelf(rec, a) == rec # a

\* UNWIND metadata AS m  MATCH (m)<-[:...]-(rec:Specimen)  WHERE rec <> a:
\* one row <<a, m, relationship, rec>> per relationship into m.
RecRows(g, specimen_name) ==
    UNION { UNION { { <<a, m, e, e[1]>> :
                        e \in {x \in g : /\ x[3] = m
                                          /\ x[2] \in BackwardTypes
                                          /\ x[1][1] = "Specimen"
                                          /\ NotSelf(x[1], a)} } :
                    m \in Metadata(g, a) } :
            a \in MatchA(g, specimen_name) }

\* count(m) in place of count(DISTINCT m): one per relationship row.
ScoresMutant(g, specimen_name) ==
    LET rows == RecRows(g, specimen_name)
        recs == {row[4] : row \in rows}
    IN  [rec \in recs |-> Cardinality({r \in rows : r[4] = rec})]

\* WITH rec, count(DISTINCT m) AS score
Scores(g, specimen_name) ==
    LET rows == RecRows(g, specimen_name)
        recs == {row[4] : row \in rows}
    IN  [rec \in recs |-> Cardinality({row[2] : row \in {r \in rows : r[4] = rec}})]

\* ORDER BY score DESC  LIMIT 5: every order of the rows that is descending
\* in score, cut after k rows; rows of equal score come in any order.
RECURSIVE OrderLimit(_, _, _)
OrderLimit(sc, rest, k) ==
    IF k = 0 \/ rest = {}
    THEN {<< >>}
    ELSE LET top == {r \in rest : \A o \in rest : sc[r] >= sc[o]}
         IN  UNION { {<<r>> \o s : s \in OrderLimit(sc, rest \ {r}, k - 1)} : r \in top }

\* RETURN rec.Specimen AS recommended_name
CypherResults(g, specimen_name) ==
    LET sc == Scores(g, specimen_name)
    IN  { [i \in 1..Len(s) |-> SpecimenProp(s[i])] : s \in OrderLimit(sc, DOMAIN sc, Limit) }

\* ------------------------------------------------------- the vector store

\* The documents of the 'specimens' collection and their metadata.
Bodies == <<"b1", "b2", "b3", "b4", "b5", "b6", "b7", "b8", "b9", "b10">>
Titles == <<"t1", "t2", "t3", "t4", "t5", "t6", "t7", "t8", "t9", "t10">>

Metadata_(i) == [specimen_name |-> SpecimenNames[i], title |-> Titles[i]]

\* What specimens.query returns: n ranked documents with their metadata, the
\* nearest first; the ranking runs up or down the collection.
QueryResults ==
    { [documents |-> <<[i \in 1..n |-> Bodies[IF up THEN i ELSE n + 1 - i]]>>,
       metadatas |-> <<[i \in 1..n |-> Metadata_(IF up THEN i ELSE n + 1 - i)]>>] :
        n \in 0..MaxRetrieved, up \in BOOLEAN }

NoResults == [documents |-> << << >> >>, metadatas |-> << << >> >>]

\* ------------------------------------------------------- pure helpers

Min(a, b) == IF a <= b THEN a ELSE b

\* The list without the slice.
TakeMutant(s, k) == s

\* s[:k]
Take(s, k) == SubSeq(s, 1, Min(k, Len(s)))

\* The parts run together, without the separator.
JoinMutant(sep, parts) == parts

\* sep.join(parts): a text is the sequence of its pieces.
RECURSIVE Join(_, _)
Join(sep, parts) ==
    IF parts = << >> THEN << >>
    ELSE IF Len(parts) = 1 THEN <<parts[1]>>
    ELSE <<parts[1], sep>> \o Join(sep, Tail(parts))

\* SUMMARIZE_PROMPT.format(query=query, retrieval=retrieval)
SummarizePrompt(query, retrieval) ==
    [template |-> "SUMMARIZE_PROMPT", query |-> query, retrieval |-> retrieval]

\* RESULT_PROMPT.format(query=query, title=title, content=content)
ResultPrompt(query, title, content) ==
    [template |-> "RESULT_PROMPT", query |-> query, title |-> title, content |-> content]

\* What the generation backend may answer to a summary request.
SummaryContents == {"m1", "m2"}

\* What the generation backend may answer to a per-result request: a JSON
\* object with both fields, one without the justification, or text that is
\* no JSON at all.
ResultContents ==
    { [json |-> TRUE, obj |-> [description |-> "d1", justification |-> "j1"]],
      [json |-> TRUE, obj |-> [description |-> "d2", justification |-> "j2"]],
      [json |-> TRUE, obj |-> [description |-> "d3"]],
      [json |-> FALSE, obj |-> << >>] }

\* json.loads(...) followed by result['description'], result['justification']:
\* whether it returns, and what.
Parses(content) ==
    content.json /\ {"description", "justification"} \subseteq DOMAIN content.obj

\* The entry with the identifier in the place of the title.
RecommendationMutant(identifier, title, description, justification) ==
    [identifier |-> identifier, name |-> identifier, description |-> description,
     justification |-> justification]

\* The entry semantic_query appends for one result.
Recommendation(identifier, title, description, justification) ==
    [identifier |-> identifier, name |-> title, description |-> description,
     justification |-> justification]

\* zip(contents, metadatas) stops at the shorter list.
ZipLen(cs, ms) == Min(Len(cs), Len(ms))

\* ------------------------------------------------------- state

VARIABLES
    edges,            \* the graph store's snapshot
    pc,               \* position of the request being handled
    req,              \* the request: endpoint and query-string arguments
    calls,            \* upstream calls issued while handling the request, in order
    results,          \* semantic_query: what the vector store returned
    contents,         \* semantic_query: the top document bodies
    metadatas,        \* semantic_query: the top metadata records
    general_message,  \* semantic_query: the generated summary
    recommendations,  \* semantic_query: the list built so far
    resp              \* the response: status and JSON body

locals == <<results, contents, metadatas, general_message, recommendations>>
vars == <<edges, pc, req, calls, results, contents, metadatas, general_message,
          recommendations, resp>>

NoReq == [endpoint |-> "none", args |-> << >>]
NoResp == [status |-> 0, body |-> << >>]

\* `request.args.get(k) is None`: an empty parameter counts as given.
MissingMutant(args, k) == k \notin DOMAIN args

\* `not request.args.get(k)`: the parameter is absent or empty.
Missing(args, k) == k \notin DOMAIN args \/ args[k] = ""

Arg(k, v) == [x \in {k} |-> v]

\* The arguments of a /graph_recommend request: none, an empty name, another
\* parameter, an absent name, and the names of the first specimen, the first
\* candidate and the last candidate.
GraphArgs ==
    {<< >>, Arg("specimen_name", ""), Arg("query", "q1"), Arg("specimen_name", AbsentName)}
    \cup {Arg("specimen_name", SpecimenProp(Sp(i))) : i \in {1, 2, NumSpecimens}}

SemanticArgs ==
    {<< >>, Arg("query", ""), Arg("specimen_name", "n1"), Arg("query", "q1"),
     Arg("query", "q2")}

Idle ==
    /\ pc = "idle"
    /\ req = NoReq
    /\ calls = << >>
    /\ results = NoResults
    /\ contents = << >>
    /\ metadatas = << >>
    /\ general_message = ""
    /\ recommendations = << >>
    /\ resp = NoResp

\* The scenario graph: the last candidate shares two attributes with the
\* queried specimen, the one before it one, the others none.
ScenarioGraph ==
    {<<Sp(1), "FROM_ERA", Attr(1)>>, <<Sp(1), "DURING", Attr(1)>>,
     <<Sp(1), "TYPE_OF", Attr(2)>>}
    \cup UNION {CandidateProfile(i, IF i = NumSpecimens THEN 2
                                    ELSE IF i = NumSpecimens - 1 THEN 1 ELSE 0) :
                    i \in 2..NumSpecimens}

Init == edges = ScenarioGraph /\ Idle

InitGraph == edges \in Graphs /\ Idle

\* An upstream call, as the collaborator sees it: who, what, with what, and
\* whether it returned (ok) or raised.
Call(svc, op, arg, ok, out) == [svc |-> svc, op |-> op, arg |-> arg, ok |-> ok, out |-> out]

\* A handler that answers with whatever was built before the exception.
Error500Mutant(msg) ==
    [status |-> 200,
     body |-> [general_message |-> general_message, recommendations |-> recommendations]]

\* except Exception as e: return jsonify({'error': str(e)}), 500
Error500(msg) == [status |-> 500, body |-> [error |-> msg]]

\* graph_recommend, with Recommender.graph_query: session.run raises, or
\* yields the query's rows.
GraphRecommend ==
    /\ pc = "idle"
    /\ \E args \in GraphArgs :
        /\ req' = [endpoint |-> "/graph_recommend", args |-> args]
        /\ IF Missing(args, "specimen_name")
           THEN /\ calls' = << >>
                /\ resp' = [status |-> 400,
                            body |-> [error |-> "No specimen_name parameter provided"]]
           ELSE \E ok \in BOOLEAN :
                /\ calls' = <<Call("graph", "run", args["specimen_name"], ok, << >>)>>
                /\ IF ok
                   THEN \E r \in CypherResults(edges, args["specimen_name"]) :
                            resp' = [status |-> 200, body |-> [recommendations |-> r]]
                   ELSE resp' = Error500("graph store failure")
    /\ pc' = "done"
    /\ UNCHANGED <<edges, locals>>

\* semantic_recommend up to the call of semantic_query
SemanticRecommend ==
    /\ pc = "idle"
    /\ \E args \in SemanticArgs :
        /\ req' = [endpoint |-> "/semantic_recommend", args |-> args]
        /\ IF Missing(args, "query")
           THEN /\ resp' = [status |-> 400,
                            body |-> [error |-> "No query parameter provided"]]
                /\ pc' = "done"
           ELSE /\ resp' = resp
                /\ pc' = "get_collection"
    /\ UNCHANGED <<edges, calls, locals>>

\* specimens = self.chromadb_client.get_collection('specimens')
GetCollection ==
    /\ pc = "get_collection"
    /\ \E ok \in BOOLEAN :
        /\ calls' = Append(calls, Call("vector", "get_collection", "specimens", ok, << >>))
        /\ IF ok
           THEN pc' = "get_embeddings" /\ resp' = resp
           ELSE pc' = "done" /\ resp' = Error500("vector store failure")
    /\ UNCHANGED <<edges, req, locals>>

\* get_embeddings with its exception swallowed: the query is issued anyway.
GetEmbeddingsMutant ==
    /\ pc = "get_embeddings"
    /\ \E ok \in BOOLEAN :
        calls' = Append(calls, Call("embedding", "create", req.args["query"], ok, << >>))
    /\ pc' = "query"
    /\ UNCHANGED <<edges, req, locals, resp>>

\* embeddings = self.get_embeddings(text=query)
GetEmbeddings ==
    /\ pc = "get_embeddings"
    /\ \E ok \in BOOLEAN :
        /\ calls' = Append(calls, Call("embedding", "create", req.args["query"], ok, << >>))
        /\ IF ok
           THEN pc' = "query" /\ resp' = resp
           ELSE pc' = "done" /\ resp' = Error500("embedding failure")
    /\ UNCHANGED <<edges, req, locals>>

\* results = specimens.query(query_embeddings=embeddings), and the two slices
QueryCollection ==
    /\ pc = "query"
    /\ \E ok \in BOOLEAN :
        /\ calls' = Append(calls, Call("vector", "query", req.args["query"], ok, << >>))
        /\ IF ok
           THEN /\ \E r \in QueryResults :
                    /\ results' = r
                    /\ contents' = Take(r.documents[1], ContentsTop)
                    /\ metadatas' = Take(r.metadatas[1], MetadatasTop)
                /\ pc' = "describe_results"
                /\ resp' = resp
           ELSE /\ pc' = "done"
                /\ resp' = Error500("vector store failure")
                /\ UNCHANGED <<results, contents, metadatas>>
    /\ UNCHANGED <<edges, req, general_message, recommendations>>

\* general_message = self.describe_results(query, contents); recommendations = []
DescribeResults ==
    /\ pc = "describe_results"
    /\ LET prompt == SummarizePrompt(req.args["query"], Join("\n\n", contents))
       IN  \/ \E m \in SummaryContents :
                /\ calls' = Append(calls, Call("generation", "summary", prompt, TRUE, m))
                /\ general_message' = m
                /\ recommendations' = << >>
                /\ pc' = "describe_result"
                /\ resp' = resp
           \/ /\ calls' = Append(calls, Call("generation", "summary", prompt, FALSE, ""))
              /\ pc' = "done"
              /\ resp' = Error500("generation failure")
              /\ UNCHANGED <<general_message, recommendations>>
    /\ UNCHANGED <<edges, req, results, contents, metadatas>>

\* One turn of `for content, metadata in zip(contents, metadatas)`, with
\* Recommender.describe_result.
DescribeResult ==
    /\ pc = "describe_result"
    /\ Len(recommendations) < ZipLen(contents, metadatas)
    /\ LET i == Len(recommendations) + 1
           content == contents[i]
           metadata == metadatas[i]
           identifier == metadata.specimen_name
           title == metadata.title
           prompt == ResultPrompt(req.args["query"], title, content)
       IN  \/ \E c \in ResultContents :
                /\ calls' = Append(calls, Call("generation", "result", prompt, TRUE, c))
                /\ IF Parses(c)
                   THEN /\ recommendations' = Append(recommendations,
                                Recommendation(identifier, title, c.obj.description,
                                               c.obj.justification))
                        /\ pc' = pc
                        /\ resp' = resp
                   ELSE /\ pc' = "done"
                        /\ resp' = Error500("result not parseable")
                        /\ UNCHANGED recommendations
           \/ /\ calls' = Append(calls, Call("generation", "result", prompt, FALSE,
                                             [json |-> FALSE, obj |-> << >>]))
              /\ pc' = "done"
              /\ resp' = Error500("generation failure")
              /\ UNCHANGED recommendations
    /\ UNCHANGED <<edges, req, results, contents, metadatas, general_message>>

\* return general_message, recommendations, and the handler's jsonify
ReturnSemantic ==
    /\ pc = "describe_result"
    /\ Len(recommendations) = ZipLen(contents, metadatas)
    /\ resp' = [status |-> 200,
                body |-> [general_message |-> general_message,
                          recommendations |-> recommendations]]
    /\ pc' = "done"
    /\ UNCHANGED <<edges, req, calls, locals>>

\* The response is sent; the server takes the next request.
Finish ==
    /\ pc = "done"
    /\ pc' = "idle"
    /\ req' = NoReq
    /\ calls' = << >>
    /\ results' = NoResults
    /\ contents' = << >>
    /\ metadatas' = << >>
    /\ general_message' = ""
    /\ recommendations' = << >>
    /\ resp' = NoResp
    /\ UNCHANGED edges

Next ==
    \/ GraphRecommend
    \/ SemanticRecommend
    \/ GetCollection
    \/ GetEmbeddings
    \/ QueryCollection
    \/ DescribeResults
    \/ DescribeResult
    \/ ReturnSemantic
    \/ Finish

Spec == Init /\ [][Next]_vars

NextGraph == GraphRecommend \/ Finish

SpecGraph == InitGraph /\ [][NextGraph]_vars

\* ------------------------------------------------------- properties

GraphDone == pc = "done" /\ req.endpoint = "/graph_recommend"
GraphOk == GraphDone /\ resp.status = 200
SemanticDone == pc = "done" /\ req.endpoint = "/semantic_recommend"
SemanticOk == SemanticDone /\ resp.status = 200

\* The fourteen relationship types of the allow-list.
AllowList ==
    {"AT_GROWTH_STAGE", "BONE_IS", "DURING", "FROM_ERA", "KERATIN_ON",
     "LIVES_IN_HABITAT", "MADE_OF", "MUSEUM_ACQUISITION", "ORIGINATED",
     "PRESERVED", "TEETH_ARE", "TYPE_OF", "TYPE_OF_HIGH", "TYPE_OF_MID"}

\* The Specimen nodes that carry a name.
NodesNamed(name) == {n \in SpecimenNodes : SpecimenNames[n[2]] = name}

\* The number of distinct nodes that x and y both reach in one hop over an
\* allow-listed relationship type.
Reach(g, x) == {e[3] : e \in {d \in g : d[1] = x /\ d[2] \in AllowList}}
SharedCount(g, x, y) == Cardinality(Reach(g, x) \cap Reach(g, y))

\* The score of the specimen named y against the queried specimen named x.
NameScore(g, x, y) ==
    SharedCount(g, CHOOSE n \in NodesNamed(x) : TRUE, CHOOSE n \in NodesNamed(y) : TRUE)

\* An upstream call that raised, or a per-result answer that is not a JSON
\* object with both fields.
Failed(c) ==
    \/ ~c.ok
    \/ /\ c.op = "result"
       /\ ~(c.out.json /\ {"description", "justification"} \subseteq DOMAIN c.out.obj)

\* The documents the vector store returned for the request's query.
Retrieved == results.documents[1]

\* C1: a request without its required parameter (absent or empty) is answered
\* at once with a 400 whose body has an `error` field, and no upstream call is
\* made while handling it, on both endpoints.
C1_MissingParameter400 ==
    ( \/ /\ req.endpoint = "/graph_recommend"
         /\ ("specimen_name" \notin DOMAIN req.args \/ req.args["specimen_name"] = "")
      \/ /\ req.endpoint = "/semantic_recommend"
         /\ ("query" \notin DOMAIN req.args \/ req.args["query"] = "") )
    => /\ pc = "done"
       /\ calls = << >>
       /\ resp.status = 400
       /\ "error" \in DOMAIN resp.body

C1_Witness ==
    /\ req.endpoint = "/semantic_recommend"
    /\ "query" \notin DOMAIN req.args
    /\ "specimen_name" \in DOMAIN req.args
    /\ resp.status = 400
    /\ calls = << >>

\* C2: the sequence graph_query returns never contains the name it was
\* queried with.
C2_NeverRecommendsItself ==
    GraphOk =>
        \A i \in 1..Len(resp.body.recommendations) :
            resp.body.recommendations[i] # req.args["specimen_name"]

\* The queried specimen points at itself and at one attribute over two listed
\* types, and a candidate that reaches one attribute over three types is returned.
C2_Witness ==
    /\ GraphOk
    /\ req.args["specimen_name"] = "n1"
    /\ <<Sp(1), "TYPE_OF", Sp(1)>> \in edges
    /\ <<Sp(1), "DURING", Attr(1)>> \in edges
    /\ \E i \in 1..Len(resp.body.recommendations) :
        \E n \in NodesNamed(resp.body.recommendations[i]) :
            <<n, "ORIGINATED", Attr(1)>> \in edges

\* C3: graph_query returns at most 5 names of specimens, in non-increasing
\* order of their count of shared attribute nodes, and no specimen left out
\* has a strictly higher count than one returned.
C3_RankedTopFive ==
    (GraphOk /\ NodesNamed(req.args["specimen_name"]) # {}) =>
        LET x == req.args["specimen_name"]
            recs == resp.body.recommendations
            others == {SpecimenNames[n[2]] : n \in SpecimenNodes} \ {x}
            score == [y \in others |-> NameScore(edges, x, y)]
        IN  /\ Len(recs) <= 5
            /\ \A i \in 1..Len(recs) : recs[i] \in others
            /\ \A i \in 1..Len(recs), j \in 1..Len(recs) :
                i < j => score[recs[i]] >= score[recs[j]]
            /\ \A y \in others :
                (\A i \in 1..Len(recs) : recs[i] # y) =>
                    \A i \in 1..Len(recs) : score[y] <= score[recs[i]]

\* Five are returned, the first sharing two attributes and the last one, and a
\* specimen that shares an attribute is left out.
C3_Witness ==
    /\ GraphOk
    /\ req.args["specimen_name"] = "n1"
    /\ Len(resp.body.recommendations) = 5
    /\ NameScore(edges, "n1", resp.body.recommendations[1]) = 2
    /\ NameScore(edges, "n1", resp.body.recommendations[5]) = 1
    /\ \E n \in SpecimenNodes \ {Sp(1)} :
        /\ \A i \in 1..5 : resp.body.recommendations[i] # SpecimenNames[n[2]]
        /\ SharedCount(edges, Sp(1), n) >= 1

\* C4: when the graph store answers, a name that no Specimen node carries, or
\* a specimen that shares no attribute node with any other, gets a 200 with an
\* empty recommendations list.
C4_NotFoundIsEmpty ==
    ( /\ GraphDone
      /\ "specimen_name" \in DOMAIN req.args
      /\ req.args["specimen_name"] # ""
      /\ calls # << >>
      /\ calls[1].ok
      /\ \A a \in NodesNamed(req.args["specimen_name"]) :
            \A y \in SpecimenNodes \ {a} : SharedCount(edges, a, y) = 0 )
    => /\ resp.status = 200
       /\ DOMAIN resp.body = {"recommendations"}
       /\ resp.body.recommendations = << >>

C4_Witness ==
    /\ GraphDone
    /\ req.args = Arg("specimen_name", AbsentName)
    /\ resp.status = 200
    /\ resp.body.recommendations = << >>

\* C5 as stated: a successful semantic_query returns at most 5 results, as
\* many as the vector store retrieved.
C5_AsManyAsRetrieved ==
    SemanticOk =>
        /\ Len(resp.body.recommendations) <= 5
        /\ Len(resp.body.recommendations) = Len(Retrieved)

\* C5, amended: a successful semantic_query returns the generated summary and
\* as many results as the vector store retrieved, but no more than 5.
C5_AsManyAsRetrievedUpToFive ==
    SemanticOk =>
        /\ \E i \in 1..Len(calls) :
            calls[i].op = "summary" /\ resp.body.general_message = calls[i].out
        /\ Len(resp.body.recommendations) <= 5
        /\ Len(resp.body.recommendations) = IF Len(Retrieved) <= 5 THEN Len(Retrieved) ELSE 5

C5_Witness ==
    /\ SemanticOk
    /\ Len(Retrieved) = 6
    /\ Len(resp.body.recommendations) = 5

\* C6: when any upstream call of a /semantic_recommend request raised, or a
\* per-result answer could not be parsed, the response is a 500 with an `error`
\* field and neither `recommendations` nor `general_message`.
C6_AllOrNothing ==
    (SemanticDone /\ \E i \in 1..Len(calls) : Failed(calls[i]))
    => /\ resp.status = 500
       /\ "error" \in DOMAIN resp.body
       /\ "recommendations" \notin DOMAIN resp.body
       /\ "general_message" \notin DOMAIN resp.body

\* A per-result answer that is no JSON arrives after an earlier result was built.
C6_Witness ==
    /\ SemanticDone
    /\ resp.status = 500
    /\ Len(recommendations) >= 1
    /\ calls[Len(calls)].op = "result"
    /\ calls[Len(calls)].ok
    /\ ~calls[Len(calls)].out.json

\* C7: in a successful semantic_query that retrieved k <= 5 documents, summary
\* generation is called once, with the k bodies in retrieval order separated by
\* blank lines, and per-result generation is called k times.
C7_OneSummaryKResults ==
    (SemanticOk /\ Len(Retrieved) <= 5) =>
        LET k == Len(Retrieved)
            expected == [j \in 1..(IF k = 0 THEN 0 ELSE 2 * k - 1) |->
                            IF j % 2 = 1 THEN Retrieved[(j + 1) \div 2] ELSE "\n\n"]
            summaries == {i \in 1..Len(calls) : calls[i].op = "summary"}
            perResult == {i \in 1..Len(calls) : calls[i].op = "result"}
        IN  /\ Cardinality(summaries) = 1
            /\ \A i \in summaries : calls[i].arg.retrieval = expected
            /\ Cardinality(perResult) = k

C7_Witness ==
    /\ SemanticOk
    /\ Len(Retrieved) = 3
    /\ Cardinality({i \in 1..Len(calls) : calls[i].op = "result"}) = 3
    /\ Cardinality({i \in 1..Len(calls) : calls[i].op = "summary"}) = 1

\* The stage of an upstream call: embedding, vector store, summary generation,
\* per-result generation.
Stage(c) ==
    CASE c.svc = "embedding" -> 1
      [] c.svc = "vector" -> 2
      [] c.svc = "generation" /\ c.op = "summary" -> 3
      [] c.svc = "generation" /\ c.op = "result" -> 4

\* C8 as stated: the calls of one semantic_query go to the embedding service,
\* then the vector store, then summary generation, then per-result generation,
\* and no call follows a failed one.
C8_StagesInOrder ==
    req.endpoint = "/semantic_recommend" =>
        /\ \A i \in 1..Len(calls), j \in 1..Len(calls) :
            i < j => Stage(calls[i]) <= Stage(calls[j])
        /\ \A i \in 1..Len(calls) : i < Len(calls) => ~Failed(calls[i])

\* C8, amended: the calls of one semantic_query are the vector store's
\* collection lookup, then the embedding, then the vector store's query, then
\* summary generation, then per-result generation, and no call follows a
\* failed one.
C8_LookupThenStagesInOrder ==
    req.endpoint = "/semantic_recommend" =>
        /\ \A i \in 1..Len(calls) :
            <<calls[i].svc, calls[i].op>> =
                CASE i = 1 -> <<"vector", "get_collection">>
                  [] i = 2 -> <<"embedding", "create">>
                  [] i = 3 -> <<"vector", "query">>
                  [] i = 4 -> <<"generation", "summary">>
                  [] OTHER -> <<"generation", "result">>
        /\ \A i \in 1..Len(calls) : i < Len(calls) => ~Failed(calls[i])

\* The second per-result call fails after all earlier calls returned.
C8_Witness ==
    /\ SemanticDone
    /\ Len(calls) = 6
    /\ ~calls[6].ok
    /\ resp.status = 500

\* C9: the sequence graph_query returns is the only one it can return for
\* that name on that snapshot, so two executions agree.
C9_Deterministic ==
    GraphOk =>
        \A r \in CypherResults(edges, req.args["specimen_name"]) :
            r = resp.body.recommendations

\* C10: in a successful semantic_query the i-th recommendation carries the
\* i-th retrieved document's specimen_name as identifier and its title as
\* name, and the description and justification that the i-th per-result call,
\* made with that title and body, returned.
C10_ResultsFollowRetrieval ==
    SemanticOk =>
        \A i \in 1..Len(resp.body.recommendations) :
            LET rec == resp.body.recommendations[i]
                c == calls[4 + i]
            IN  /\ rec.identifier = results.metadatas[1][i].specimen_name
                /\ rec.name = results.metadatas[1][i].title
                /\ c.op = "result"
                /\ c.arg.query = req.args["query"]
                /\ c.arg.title = results.metadatas[1][i].title
                /\ c.arg.content = Retrieved[i]
                /\ rec.description = c.out.obj.description
                /\ rec.justification = c.out.obj.justification

\* Three documents retrieved nearest-last in the collection's order, with
\* different generated descriptions.
C10_Witness ==
    /\ SemanticOk
    /\ Len(resp.body.recommendations) = 3
    /\ resp.body.recommendations[1].identifier = "n3"
    /\ resp.body.recommendations[1].name = "t3"
    /\ resp.body.recommendations[1].description = "d1"
    /\ resp.body.recommendations[2].description = "d2"

====
